---- MODULE Spec2Model ----
(***************************************************************************)
(* Model of FPD_Creator.py: the three-stage extraction pipeline (main),    *)
(* its two parsers (parse_numbered_list, parse_markdown_table), the        *)
(* artifact writer (write_csv) and the stage-3 prompt builder.             *)
(*                                                                         *)
(* A Python str is modelled as a sequence of units.  A unit is one         *)
(* character ("|", " ", "\n", "1", "_", ...) or a non-empty run of letters *)
(* written as one string ("Alice").  Every operation of the program that   *)
(* looks inside a string (strip, split, startswith, the two regular        *)
(* expressions) distinguishes characters only by class, and a run of       *)
(* letters behaves in each of them like any one letter.                    *)
(***************************************************************************)
EXTENDS Integers, Sequences, FiniteSets, TLC

\* ------------------------------------------------------------------------
\* Characters and the str methods the program uses
\* ------------------------------------------------------------------------

NL == "\n"
Pipe == "|"

Whitespace == {" ", "\t", NL}
Digits == {"0", "1", "2", "3", "4", "5", "6", "7", "8", "9"}
Punctuation == {"|", ".", "-", "--", ":", "/", ",", "*"}

\* str.isspace of one character
IsSpace(c) == c \in Whitespace

\* the class \d of re
IsDigit(c) == c \in Digits

\* the class \w of re: letters, digits and the underscore
IsWord(c) == c \notin Whitespace /\ c \notin Punctuation

Range(s) == {s[i] : i \in 1..Len(s)}

RECURSIVE lstrip(_)
lstrip(s) ==
    IF s # << >> /\ IsSpace(Head(s)) THEN lstrip(Tail(s)) ELSE s

RECURSIVE rstrip(_)
rstrip(s) ==
    IF s # << >> /\ IsSpace(s[Len(s)]) THEN rstrip(SubSeq(s, 1, Len(s) - 1)) ELSE s

\* str.strip(): all leading and trailing whitespace removed
strip(s) == rstrip(lstrip(s))

RECURSIVE lstrip_chars(_, _)
lstrip_chars(s, ch) ==
    IF s # << >> /\ Head(s) = ch THEN lstrip_chars(Tail(s), ch) ELSE s

RECURSIVE rstrip_chars(_, _)
rstrip_chars(s, ch) ==
    IF s # << >> /\ s[Len(s)] = ch
    THEN rstrip_chars(SubSeq(s, 1, Len(s) - 1), ch)
    ELSE s

\* str.strip(ch): EVERY leading and trailing occurrence of ch removed
strip_chars(s, ch) == rstrip_chars(lstrip_chars(s, ch), ch)

\* str.startswith(ch)
startswith(s, ch) == s # << >> /\ Head(s) = ch

\* index of the first sep in s at or after position i, 0 when there is none
RECURSIVE find(_, _, _)
find(s, sep, i) ==
    IF i > Len(s) THEN 0
    ELSE IF s[i] = sep THEN i
    ELSE find(s, sep, i + 1)

\* str.split(sep): always at least one piece
RECURSIVE split(_, _)
split(s, sep) ==
    LET k == find(s, sep, 1)
    IN  IF k = 0 THEN << s >>
        ELSE << SubSeq(s, 1, k - 1) >> \o split(SubSeq(s, k + 1, Len(s)), sep)

\* str.splitlines(): split at line breaks, no empty piece after a final break
splitlines(s) ==
    LET pieces == split(s, NL)
    IN  IF pieces[Len(pieces)] = << >>
        THEN SubSeq(pieces, 1, Len(pieces) - 1)
        ELSE pieces

\* sep.join(parts)
RECURSIVE join(_, _)
join(sep, parts) ==
    IF parts = << >> THEN << >>
    ELSE IF Len(parts) = 1 THEN parts[1]
    ELSE parts[1] \o sep \o join(sep, Tail(parts))

\* [f(x) for x in s]
strip_each(s) == [i \in 1..Len(s) |-> strip(s[i])]

\* ------------------------------------------------------------------------
\* parse_numbered_list
\* ------------------------------------------------------------------------

\* The ways ^\s*\d+\.?\s+(.+)$ can match a line: <<i, j, d, k>> are the
\* lengths taken by \s*, \d+, \.? and \s+, and (.+) takes the rest, which
\* must hold at least one character.
Matches(line) ==
    LET n == Len(line)
    IN  {m \in (0..n) \X (1..n) \X {0, 1} \X (1..n) :
            /\ m[1] + m[2] + m[3] + m[4] < n
            /\ \A p \in 1..m[1] : IsSpace(line[p])
            /\ \A p \in (m[1] + 1)..(m[1] + m[2]) : IsDigit(line[p])
            /\ (m[3] = 1 => line[m[1] + m[2] + 1] = ".")
            /\ \A p \in (m[1] + m[2] + m[3] + 1)..(m[1] + m[2] + m[3] + m[4]) :
                  IsSpace(line[p])}

\* The order in which the backtracking matcher tries them: every quantifier
\* of the pattern is greedy, the leftmost one decides first.
Preferred(a, b) ==
    \/ a[1] > b[1]
    \/ a[1] = b[1] /\ a[2] > b[2]
    \/ a[1] = b[1] /\ a[2] = b[2] /\ a[3] > b[3]
    \/ a[1] = b[1] /\ a[2] = b[2] /\ a[3] = b[3] /\ a[4] >= b[4]

\* re.match(r"^\s*\d+\.?\s+(.+)$", line): matched, and group(1)
re_match(line) ==
    LET ms == Matches(line)
    IN  IF ms = {} THEN [matched |-> FALSE, group1 |-> << >>]
        ELSE LET m == CHOOSE a \in ms : \A b \in ms : Preferred(a, b)
             IN  [matched |-> TRUE,
                  group1 |-> SubSeq(line, m[1] + m[2] + m[3] + m[4] + 1, Len(line))]

RECURSIVE list_items(_)
list_items(lines) ==
    IF lines = << >> THEN << >>
    ELSE LET m == re_match(Head(lines))
         IN  (IF m.matched THEN << strip(m.group1) >> ELSE << >>)
                 \o list_items(Tail(lines))

parse_numbered_list(text) == list_items(splitlines(text))

\* ------------------------------------------------------------------------
\* parse_markdown_table
\* ------------------------------------------------------------------------

\* [l.strip() for l in md.splitlines() if l.strip().startswith("|")]
RECURSIVE table_lines(_)
table_lines(lines) ==
    IF lines = << >> THEN << >>
    ELSE (IF startswith(strip(Head(lines)), Pipe)
          THEN << strip(Head(lines)) >>
          ELSE << >>) \o table_lines(Tail(lines))

\* [c.strip() for c in row.strip("|").split("|")]
row_cells(row) == strip_each(split(strip_chars(row, Pipe), Pipe))

\* dict(zip(headers, cells)): a repeated header keeps its last cell
dict_zip(hdrs, cells) ==
    LET n == IF Len(hdrs) < Len(cells) THEN Len(hdrs) ELSE Len(cells)
    IN  [h \in {hdrs[i] : i \in 1..n} |->
            cells[CHOOSE i \in 1..n :
                     /\ hdrs[i] = h
                     /\ \A j \in 1..n : hdrs[j] = h => j <= i]]

\* the loop with "break" where the code has "continue"
RECURSIVE table_rows_break(_, _)
table_rows_break(hdrs, body) ==
    IF body = << >> THEN << >>
    ELSE LET cells == row_cells(Head(body))
         IN  IF Len(cells) # Len(hdrs)
             THEN << >>
             ELSE << dict_zip(hdrs, cells) >> \o table_rows_break(hdrs, Tail(body))

\* the loop over lines[2:]
RECURSIVE table_rows(_, _)
table_rows(hdrs, body) ==
    IF body = << >> THEN << >>
    ELSE LET cells == row_cells(Head(body))
         IN  (IF Len(cells) # Len(hdrs)
              THEN << >>
              ELSE << dict_zip(hdrs, cells) >>)
                 \o table_rows(hdrs, Tail(body))

parse_markdown_table(md) ==
    LET lines == table_lines(splitlines(md))
    IN  IF Len(lines) < 2 THEN << >>
        ELSE table_rows(row_cells(lines[1]), SubSeq(lines, 3, Len(lines)))

\* ------------------------------------------------------------------------
\* write_csv and the artifact names
\* ------------------------------------------------------------------------

\* re.sub(r"[^\w\-]+", "_", p): each maximal run of characters outside
\* [\w\-] becomes one underscore; characters of \w (the underscore among
\* them) and hyphens are copied
\* the class [^A-Za-z0-9\-] in place of [^\w\-]: the underscore replaced too
KeptBySub_alnum(c) == (IsWord(c) /\ c # "_") \/ c = "-"

KeptBySub(c) == IsWord(c) \/ c = "-"

RECURSIVE skip_run(_)
skip_run(s) ==
    IF s # << >> /\ ~KeptBySub(Head(s)) THEN skip_run(Tail(s)) ELSE s

RECURSIVE re_sub_safe(_)
re_sub_safe(p) ==
    IF p = << >> THEN << >>
    ELSE IF KeptBySub(Head(p)) THEN << Head(p) >> \o re_sub_safe(Tail(p))
    ELSE << "_" >> \o re_sub_safe(skip_run(p))

\* os.path.join(output_dir, f"{safe}_bpmn.csv"), relative to output_dir
bpmn_path(p) == re_sub_safe(p) \o << "_", "bpmn", ".", "csv" >>

\* os.path.join(output_dir, "message_flows.csv"), relative to output_dir
out_msg == << "message", "_", "flows", ".", "csv" >>

headers ==
    << << "Object", " ", "Type" >>, << "Object", " ", "Name" >>,
       << "Predecessor" >>, << "Successor" >>,
       << "Input", " ", "Data" >>, << "Output", " ", "Data" >>,
       << "Additional", " ", "Information" >> >>

mf_headers ==
    << << "Message", " ", "Sent" >>, << "Sending", " ", "Task" >>,
       << "Sending", " ", "Participant" >>, << "Receiving", " ", "Task" >>,
       << "Receiving", " ", "Participant" >> >>

\* csv.DictWriter.writerow: the cells of one record in fieldnames order, a
\* missing key written as the empty string
csv_row(r, fieldnames) ==
    [i \in 1..Len(fieldnames) |->
        IF fieldnames[i] \in DOMAIN r THEN r[fieldnames[i]] ELSE << >>]

\* DictWriter raises ValueError on a record with a key outside fieldnames
wrong_fields(r, fieldnames) == \E k \in DOMAIN r : k \notin Range(fieldnames)

\* the rows written before the first record DictWriter refuses
RECURSIVE csv_rows(_, _)
csv_rows(rows, fieldnames) ==
    IF rows = << >> \/ wrong_fields(Head(rows), fieldnames) THEN << >>
    ELSE << csv_row(Head(rows), fieldnames) >> \o csv_rows(Tail(rows), fieldnames)

\* write_csv(rows, headers, out_path) on a sink that is writable (sink = "ok")
\* or not (sink = "OSError": makedirs or open raises, nothing is created).
\* The file is the header line and the record lines; the quoting of the csv
\* dialect is not modelled.
write_csv(rows, fieldnames, sink) ==
    IF sink # "ok"
    THEN [raised |-> TRUE, raised_as |-> "OSError", created |-> FALSE,
          content |-> << >>]
    ELSE [raised |-> \E i \in 1..Len(rows) : wrong_fields(rows[i], fieldnames),
          raised_as |-> "ValueError",
          created |-> TRUE,
          content |-> << fieldnames >> \o csv_rows(rows, fieldnames)]

\* ------------------------------------------------------------------------
\* get_message_flows_prompt
\* ------------------------------------------------------------------------

SendReceive == { << "Send", " ", "Task" >>, << "Receive", " ", "Task" >> }

dict_get(r, k) == IF k \in DOMAIN r THEN r[k] ELSE << >>

\* act.get(key, "").strip() or the dash (one character, written "--" here)
or_dash(v) == IF strip(v) = << >> THEN << "--" >> ELSE strip(v)

RECURSIVE mini_rows(_)
mini_rows(rows) ==
    IF rows = << >> THEN << >>
    ELSE (IF headers[1] \in DOMAIN Head(rows) /\ Head(rows)[headers[1]] \in SendReceive
          THEN << Pipe, " " >> \o strip(dict_get(Head(rows), headers[1]))
                 \o << " ", Pipe, " " >> \o strip(dict_get(Head(rows), headers[2]))
                 \o << " ", Pipe, " " >> \o or_dash(dict_get(Head(rows), headers[6]))
                 \o << " ", Pipe, " " >> \o or_dash(dict_get(Head(rows), headers[5]))
                 \o << " ", Pipe, NL >>
          ELSE << >>) \o mini_rows(Tail(rows))

\* the mini_table the loop builds from the Send Task / Receive Task rows
mini_table(md_table) ==
    << Pipe, " ", "Task", " ", "Type", " ", Pipe, " ", "Task", " ", "Name", " ",
       Pipe, " ", "Output", " ", "Data", " ", Pipe, " ", "Input", " ", "Data",
       " ", Pipe, NL,
       Pipe, " ", "-", " ", Pipe, " ", "-", " ", Pipe, " ", "-", " ", Pipe, " ",
       "-", " ", Pipe, NL >>
        \o mini_rows(parse_markdown_table(md_table))

\* the section built from mini_table instead of md_table
user_section_mini(participant, md_table) ==
    << "Tasks", " ", "for", " " >> \o participant \o << ":", NL, NL >>
        \o mini_table(md_table) \o << NL >>

\* f"Tasks for {participant}:\n\n{md_table}\n"
user_section(participant, md_table) ==
    << "Tasks", " ", "for", " " >> \o participant \o << ":", NL, NL >>
        \o md_table \o << NL >>

\* the content of the user message: "\n\n".join(user_sections), over the
\* items of bpmn_tables in dict order
user_content(tables) ==
    join(<< NL, NL >>,
         [i \in 1..Len(tables) |-> user_section(tables[i].key, tables[i].value)])

\* bpmn_tables[p] = md on a dict kept as its items in insertion order: a new
\* key goes last, a present key keeps its place and takes the new value
dict_set(d, k, v) ==
    IF \E i \in 1..Len(d) : d[i].key = k
    THEN [i \in 1..Len(d) |-> IF d[i].key = k THEN [key |-> k, value |-> v] ELSE d[i]]
    ELSE Append(d, [key |-> k, value |-> v])

\* ------------------------------------------------------------------------
\* What the collaborators can return
\* ------------------------------------------------------------------------

MaxParticipants == 3

\* extract_text_from_pdf: no page with text, blank text, a document
DocTexts == { << >>, << " ", NL >>, << "SOP" >> }

\* participant labels a stage-1 reply can hold: two plain ones, two that
\* differ only in characters the artifact name replaces
Labels == { << "Alice" >>, << "Bob" >>, << "A", " ", "B" >>, << "A", "_", "B" >> }

LabelSeqs == UNION {[1..n -> Labels] : n \in 0..MaxParticipants}

DigitOf == << "1", "2", "3", "4", "5", "6", "7", "8", "9" >>

\* the numbered list "1. <label>\n2. <label>..." a reply holds
numbered(ls) ==
    join(<< NL >>, [i \in 1..Len(ls) |-> << DigitOf[i], ".", " " >> \o ls[i]])

\* stage-1 completions: a numbered list of labels (none: the empty reply),
\* or a sentence without any list
Stage1Replies ==
    {numbered(ls) : ls \in LabelSeqs}
        \cup { << "No", " ", "participants", " ", "found", "." >> }

TableHead ==
    << Pipe, " ", "Object", " ", "Type", " ", Pipe, " ", "Object", " ", "Name",
       " ", Pipe, " ", "Predecessor", " ", Pipe, " ", "Successor", " ", Pipe,
       " ", "Input", " ", "Data", " ", Pipe, " ", "Output", " ", "Data", " ",
       Pipe, " ", "Additional", " ", "Information", " ", Pipe, NL,
       Pipe, " ", "-", " ", Pipe, " ", "-", " ", Pipe, " ", "-", " ", Pipe, " ",
       "-", " ", Pipe, " ", "-", " ", Pipe, " ", "-", " ", Pipe, " ", "-", " ",
       Pipe, NL >>

\* a seven-column table with one Send Task row
SendTable ==
    TableHead \o
    << Pipe, " ", "Send", " ", "Task", " ", Pipe, " ", "Notify", " ", Pipe,
       " ", "Start", " ", Pipe, " ", "End", " ", Pipe, " ", "Form", " ", Pipe,
       " ", " ", Pipe, " ", " ", Pipe >>

\* a seven-column table with a Task row and a Receive Task row, sent with
\* text before it and a line break after it
ReceiveTable ==
    << "Here", " ", "it", " ", "is", ":", NL >> \o TableHead \o
    << Pipe, " ", "Task", " ", Pipe, " ", "Review", " ", Pipe, " ", "Start",
       " ", Pipe, " ", "Await", " ", Pipe, " ", " ", Pipe, " ", "Note", " ",
       Pipe, " ", " ", Pipe, NL,
       Pipe, " ", "Receive", " ", "Task", " ", Pipe, " ", "Await", " ", Pipe,
       " ", "Review", " ", Pipe, " ", "End", " ", Pipe, " ", "Form", " ", Pipe,
       " ", " ", Pipe, " ", " ", Pipe, NL >>

\* a reply without a table
NoTable == << "I", " ", "cannot", " ", "do", " ", "that", "." >>

\* a table whose columns are not the ones asked for
ForeignTable ==
    << Pipe, " ", "Step", " ", Pipe, " ", "Owner", " ", Pipe, NL,
       Pipe, " ", "-", " ", Pipe, " ", "-", " ", Pipe, NL,
       Pipe, " ", "Review", " ", Pipe, " ", "Alice", " ", Pipe >>

Stage2Replies == { SendTable, ReceiveTable, NoTable, ForeignTable }

\* a five-column message-flow table with one row
FlowTable ==
    << Pipe, " ", "Message", " ", "Sent", " ", Pipe, " ", "Sending", " ", "Task",
       " ", Pipe, " ", "Sending", " ", "Participant", " ", Pipe, " ",
       "Receiving", " ", "Task", " ", Pipe, " ", "Receiving", " ",
       "Participant", " ", Pipe, NL,
       Pipe, " ", "-", " ", Pipe, " ", "-", " ", Pipe, " ", "-", " ", Pipe, " ",
       "-", " ", Pipe, " ", "-", " ", Pipe, NL,
       Pipe, " ", "Form", " ", Pipe, " ", "Notify", " ", Pipe, " ", "Alice",
       " ", Pipe, " ", "Await", " ", Pipe, " ", "Bob", " ", Pipe >>

Stage3Replies == { FlowTable, NoTable, ForeignTable }

\* RecordSink: the destination is writable or not
Sinks == { "ok", "OSError" }

\* ------------------------------------------------------------------------
\* main
\* ------------------------------------------------------------------------

VARIABLES
    pc,            \* where main is: Start, Participants, BPMN, Done, Raised
    sop_text,      \* the extracted document text
    participants,  \* parse_numbered_list of the stage-1 reply
    idx,           \* position of the for loop in participants
    bpmn_tables,   \* the dict, as its items in insertion order
    files,         \* output_dir: path -> content of the file
    calls,         \* every call_gpt made so far, in order
    outcome,       \* per entry of participants, how its iteration ended
    md_log,        \* per entry of participants, the md its call returned
    mf,            \* the stripped stage-3 completion
    exc,           \* the exception that left main, "none" while there is none
    printed        \* what main printed, in order

main_vars == << pc, sop_text, participants, idx, bpmn_tables, files, calls,
                outcome, md_log, mf, exc, printed >>

VARIABLES
    arg,           \* the argument a parser or the renderer is applied to
    ret,           \* what it returned
    fpc            \* "in" before the application, "out" after it

fn_vars == << arg, ret, fpc >>

vars == << main_vars, fn_vars >>

MainInit ==
    /\ pc = "Start"
    /\ sop_text = << >>
    /\ participants = << >>
    /\ idx = 1
    /\ bpmn_tables = << >>
    /\ files = << >>
    /\ calls = << >>
    /\ outcome = << >>
    /\ md_log = << >>
    /\ mf = << >>
    /\ exc = "none"
    /\ printed = << >>

FnIdle == arg = << >> /\ ret = << >> /\ fpc = "idle"

Init == MainInit /\ FnIdle

\* files with path (re)written: open(out_path, "w") truncates
file_put(fs, path, content) ==
    IF \E i \in 1..Len(fs) : fs[i].path = path
    THEN [i \in 1..Len(fs) |->
            IF fs[i].path = path THEN [path |-> path, content |-> content] ELSE fs[i]]
    ELSE Append(fs, [path |-> path, content |-> content])

\* "if not sop_text.strip()"
blank(t) == strip(t) = << >>

\* main without the early return on an empty participant list
none_found_ignored(found) == FALSE

\* "if not participants"
none_found(found) == found = << >>

\* "if not rows", "if mf_rows" negated
no_rows(rows) == rows = << >>

\* main entering stage 3 whatever bpmn_tables holds
any_tables_unchecked(d) == TRUE

\* "if bpmn_tables"
any_tables(d) == d # << >>

\* extract_text_from_pdf returns; main returns at once on blank text
ExtractText ==
    /\ pc = "Start"
    /\ \E t \in DocTexts :
          /\ sop_text' = t
          /\ IF blank(t)
             THEN /\ pc' = "Done"
                  /\ printed' = printed \o << "Reading PDF", "No text extracted" >>
             ELSE /\ pc' = "Participants"
                  /\ printed' = Append(printed, "Reading PDF")
    /\ UNCHANGED << participants, idx, bpmn_tables, files, calls, outcome, md_log,
                    mf, exc >>
    /\ UNCHANGED fn_vars

\* pdfplumber.open raises: nothing in main catches it
ExtractTextRaises ==
    /\ pc = "Start"
    /\ pc' = "Raised"
    /\ exc' = "ExtractionError"
    /\ printed' = Append(printed, "Reading PDF")
    /\ UNCHANGED << sop_text, participants, idx, bpmn_tables, files, calls,
                    outcome, md_log, mf >>
    /\ UNCHANGED fn_vars

\* the stage-1 call returns: call_gpt strips the completion, main parses it
IdentifyParticipants ==
    /\ pc = "Participants"
    /\ \E completion \in Stage1Replies :
          LET resp == strip(completion)
              found == parse_numbered_list(resp)
          IN  /\ participants' = found
              /\ outcome' = [i \in 1..Len(found) |-> "pending"]
              /\ md_log' = [i \in 1..Len(found) |-> << >>]
              /\ IF none_found(found)
                 THEN /\ pc' = "Done"
                      /\ printed' = printed \o << "Identifying", "Failed to parse any participants" >>
                 ELSE /\ pc' = "BPMN"
                      /\ printed' = printed \o << "Identifying", "Found participants" >>
    /\ calls' = Append(calls, [stage |-> 1, about |-> sop_text])
    /\ UNCHANGED << sop_text, idx, bpmn_tables, files, mf, exc >>
    /\ UNCHANGED fn_vars

\* client.chat.completions.create raises in the stage-1 call
IdentifyParticipantsRaises ==
    /\ pc = "Participants"
    /\ pc' = "Raised"
    /\ exc' = "RemoteCallError"
    /\ calls' = Append(calls, [stage |-> 1, about |-> sop_text])
    /\ printed' = Append(printed, "Identifying")
    /\ UNCHANGED << sop_text, participants, idx, bpmn_tables, files, outcome,
                    md_log, mf >>
    /\ UNCHANGED fn_vars

\* one iteration of "for p in participants" whose call_gpt returns
ProcessParticipant ==
    /\ pc = "BPMN"
    /\ idx <= Len(participants)
    /\ \E completion \in Stage2Replies, sink \in Sinks :
          LET p == participants[idx]
              md == strip(completion)
              rows == parse_markdown_table(md)
              w == write_csv(rows, headers, sink)
          IN  /\ md_log' = [md_log EXCEPT ![idx] = md]
              /\ IF no_rows(rows)
                 THEN /\ outcome' = [outcome EXCEPT ![idx] = "unparsable"]
                      /\ printed' = printed \o << "Generating", "Could not parse table" >>
                      /\ idx' = idx + 1
                      /\ UNCHANGED << pc, exc, files, bpmn_tables >>
                 ELSE /\ files' = IF w.created
                                  THEN file_put(files, bpmn_path(p), w.content)
                                  ELSE files
                      /\ IF w.raised
                         THEN /\ pc' = "Raised"
                              /\ exc' = w.raised_as
                              /\ outcome' = [outcome EXCEPT ![idx] = "write_raised"]
                              /\ printed' = Append(printed, "Generating")
                              /\ UNCHANGED << idx, bpmn_tables >>
                         ELSE /\ outcome' = [outcome EXCEPT ![idx] = "written"]
                              /\ printed' = printed \o << "Generating", "rows" >>
                              /\ bpmn_tables' = dict_set(bpmn_tables, p, md)
                              /\ idx' = idx + 1
                              /\ UNCHANGED << pc, exc >>
    /\ calls' = Append(calls, [stage |-> 2, about |-> participants[idx]])
    /\ UNCHANGED << sop_text, participants, mf >>
    /\ UNCHANGED fn_vars

\* one iteration whose call_gpt raises: the exception leaves the loop and main
ProcessParticipantRaises ==
    /\ pc = "BPMN"
    /\ idx <= Len(participants)
    /\ pc' = "Raised"
    /\ exc' = "RemoteCallError"
    /\ outcome' = [outcome EXCEPT ![idx] = "call_raised"]
    /\ calls' = Append(calls, [stage |-> 2, about |-> participants[idx]])
    /\ printed' = Append(printed, "Generating")
    /\ UNCHANGED << sop_text, participants, idx, bpmn_tables, files, md_log, mf >>
    /\ UNCHANGED fn_vars

\* after the loop, bpmn_tables non-empty: the stage-3 call returns
MessageFlows ==
    /\ pc = "BPMN"
    /\ idx > Len(participants)
    /\ any_tables(bpmn_tables)
    /\ \E completion \in Stage3Replies, sink \in Sinks :
          LET mf_rows == parse_markdown_table(strip(completion))
              w == write_csv(mf_rows, mf_headers, sink)
          IN  /\ mf' = strip(completion)
              /\ IF no_rows(mf_rows)
                 THEN /\ pc' = "Done"
                      /\ printed' = printed \o
                           << "Generating message flows",
                              "Could not parse message flows", "All done" >>
                      /\ UNCHANGED << files, exc >>
                 ELSE /\ files' = IF w.created
                                  THEN file_put(files, out_msg, w.content)
                                  ELSE files
                      /\ IF w.raised
                         THEN /\ pc' = "Raised"
                              /\ exc' = w.raised_as
                              /\ printed' = Append(printed, "Generating message flows")
                         ELSE /\ pc' = "Done"
                              /\ printed' = printed \o
                                   << "Generating message flows", "flows", "All done" >>
                              /\ UNCHANGED exc
    /\ calls' = Append(calls, [stage |-> 3, about |-> user_content(bpmn_tables)])
    /\ UNCHANGED << sop_text, participants, idx, bpmn_tables, outcome, md_log >>
    /\ UNCHANGED fn_vars

\* the stage-3 call raises
MessageFlowsRaises ==
    /\ pc = "BPMN"
    /\ idx > Len(participants)
    /\ any_tables(bpmn_tables)
    /\ pc' = "Raised"
    /\ exc' = "RemoteCallError"
    /\ calls' = Append(calls, [stage |-> 3, about |-> user_content(bpmn_tables)])
    /\ printed' = Append(printed, "Generating message flows")
    /\ UNCHANGED << sop_text, participants, idx, bpmn_tables, files, outcome,
                    md_log, mf >>
    /\ UNCHANGED fn_vars

\* after the loop, bpmn_tables empty: "if bpmn_tables:" is skipped
NoMessageFlows ==
    /\ pc = "BPMN"
    /\ idx > Len(participants)
    /\ ~any_tables(bpmn_tables)
    /\ pc' = "Done"
    /\ printed' = Append(printed, "All done")
    /\ UNCHANGED << sop_text, participants, idx, bpmn_tables, files, calls,
                    outcome, md_log, mf, exc >>
    /\ UNCHANGED fn_vars

Next ==
    \/ ExtractText
    \/ ExtractTextRaises
    \/ IdentifyParticipants
    \/ IdentifyParticipantsRaises
    \/ ProcessParticipant
    \/ ProcessParticipantRaises
    \/ MessageFlows
    \/ MessageFlowsRaises
    \/ NoMessageFlows

Spec == Init /\ [][Next]_vars

\* ------------------------------------------------------------------------
\* The parsers and the artifact name, applied to bounded inputs
\* ------------------------------------------------------------------------

MaxTextLen == 5
MaxLines == 5
MaxCols == 2
MaxRows == 2
MaxLabelLen == 4

SeqsUpTo(S, n) == UNION {[1..k -> S] : k \in 0..n}

\* the example of the docstring and of the specification
ExampleList ==
    << "1", ".", " ", "Alice", NL, "2", " ", "Bob", NL, "NotANumber", NL,
       "3", ".", " ", "Carol" >>

ListAlphabet == { "1", ".", " ", "a", NL }

ListTexts == SeqsUpTo(ListAlphabet, MaxTextLen) \cup { ExampleList }

\* lines a reply can hold: a header, a separator, rows of two cells, rows of
\* one and of three cells, a row ending in an empty cell, a line of prose
SampleLines ==
    { << Pipe, " ", "a", " ", Pipe, " ", "b", " ", Pipe >>,
      << Pipe, "-", Pipe, "-", Pipe >>,
      << Pipe, "x", Pipe, "y", Pipe >>,
      << Pipe, "x", Pipe >>,
      << " ", Pipe, "x", Pipe, "y", Pipe, "z", Pipe, " " >>,
      << Pipe, "x", Pipe, Pipe >>,
      << "note" >> }

TableTexts == {join(<< NL >>, ls) : ls \in SeqsUpTo(SampleLines, MaxLines)}

ColNames == << << "a" >>, << "b" >>, << "c" >> >>

\* headers of distinct column names
Headers ==
    {h \in UNION {[1..n -> Range(ColNames)] : n \in 1..MaxCols} :
        \A i, k \in 1..Len(h) : h[i] = h[k] => i = k}

\* cell values: trimmed, without pipe or line break; the empty string is one
CellValues == { << >>, << "x", " ", "y" >> }

Tables ==
    UNION {{[header |-> h, rows |-> rs] :
               rs \in SeqsUpTo([1..Len(h) -> CellValues], MaxRows)} : h \in Headers}

LabelAlphabet == { "a", "_", " ", "-", "/" }

LabelTexts == SeqsUpTo(LabelAlphabet, MaxLabelLen)

\* a pipe table line "|c1|c2|"
line_compact(cells) == << Pipe >> \o join(<< Pipe >>, cells) \o << Pipe >>

\* a pipe table line "| c1 | c2 |", the layout of the tables in the prompts
line_padded(cells) ==
    << Pipe, " " >> \o join(<< " ", Pipe, " " >>, cells) \o << " ", Pipe >>

dashes(n) == [i \in 1..n |-> << "-" >>]

\* header line, separator line, one line per row
render(t, style) ==
    LET Line(cells) == IF style = "compact" THEN line_compact(cells)
                       ELSE line_padded(cells)
    IN  join(<< NL >>,
             << Line(t.header), Line(dashes(Len(t.header))) >>
                 \o [i \in 1..Len(t.rows) |-> Line(t.rows[i])])

FnInit(inputs) == MainInit /\ arg \in inputs /\ ret = << >> /\ fpc = "in"

ApplyParseNumberedList ==
    /\ fpc = "in"
    /\ ret' = parse_numbered_list(arg)
    /\ fpc' = "out"
    /\ UNCHANGED << arg, main_vars >>

NextList == ApplyParseNumberedList

SpecList == FnInit(ListTexts) /\ [][NextList]_vars

ApplyParseMarkdownTable ==
    /\ fpc = "in"
    /\ ret' = parse_markdown_table(arg)
    /\ fpc' = "out"
    /\ UNCHANGED << arg, main_vars >>

NextTable == ApplyParseMarkdownTable

SpecTable == FnInit(TableTexts) /\ [][NextTable]_vars

\* render the table without padding, parse the text
RoundTripCompact ==
    /\ fpc = "in"
    /\ ret' = parse_markdown_table(render(arg, "compact"))
    /\ fpc' = "compact"
    /\ UNCHANGED << arg, main_vars >>

\* render the table with padded cells, parse the text
RoundTripPadded ==
    /\ fpc = "in"
    /\ ret' = parse_markdown_table(render(arg, "padded"))
    /\ fpc' = "padded"
    /\ UNCHANGED << arg, main_vars >>

NextRoundTrip == RoundTripCompact \/ RoundTripPadded

SpecRoundTrip == FnInit(Tables) /\ [][NextRoundTrip]_vars

ApplySub ==
    /\ fpc = "in"
    /\ ret' = re_sub_safe(arg)
    /\ fpc' = "out"
    /\ UNCHANGED << arg, main_vars >>

NextSafe == ApplySub

SpecSafe == FnInit(LabelTexts) /\ [][NextSafe]_vars

\* ------------------------------------------------------------------------
\* Properties
\* ------------------------------------------------------------------------

Terminal == pc \in {"Done", "Raised"}

Entries == 1..Len(participants)

IsWritten(i) == outcome[i] = "written"

\* the entries whose stage-2 step succeeded, in order
WrittenEntries == SelectSeq([i \in Entries |-> i], IsWritten)

BpmnFiles == {files[k].path : k \in 1..Len(files)} \ {out_msg}

Stage3Calls == {k \in 1..Len(calls) : calls[k].stage = 3}

LastPrinted == IF printed = << >> THEN "" ELSE printed[Len(printed)]

LabeledSection(p, md) ==
    << "Tasks", " ", "for", " " >> \o p \o << ":", NL, NL >> \o md \o << NL >>

\* C1: with three participants of which exactly one fails in stage 2 (its
\* call raises, or its reply parses to no record) and two succeed, two
\* artifacts are written and the failing participant is not in the stage-3
\* input; and a stage-2 call that raises never ends the run while later
\* participants are still unprocessed.
C1_FailureIsolated ==
    /\ \A i \in Entries :
          (Terminal /\ outcome[i] = "call_raised")
              => \A k \in (i + 1)..Len(participants) : outcome[k] # "pending"
    /\ \A i \in Entries :
          ( /\ pc = "Done"
            /\ Len(participants) = 3
            /\ outcome[i] \in {"call_raised", "unparsable"}
            /\ \A k \in Entries \ {i} : outcome[k] = "written"
            /\ \A k, l \in Entries :
                  bpmn_path(participants[k]) = bpmn_path(participants[l]) => k = l )
              => /\ Cardinality(BpmnFiles) = 2
                 /\ \A k \in 1..Len(bpmn_tables) : bpmn_tables[k].key # participants[i]

\* C2: once participants are identified, a failure of an artifact write does
\* not end the run: a run that no ModelClient call ended has reached "All
\* done" when it is over.
C2_WriteFailureDoesNotEndRun ==
    (participants # << >> /\ Terminal /\ exc # "RemoteCallError")
        => (pc = "Done" /\ exc = "none" /\ LastPrinted = "All done")

\* C3: a blank document ends the run with no ModelClient call and no file;
\* a stage-1 reply without participants ends it after that one call, with no
\* stage-2 or stage-3 call and no file, reporting that none was parsed.
C3_NothingAfterEmptyStage1 ==
    /\ (pc # "Start" /\ exc = "none" /\ strip(sop_text) = << >>)
          => /\ pc = "Done"
             /\ calls = << >>
             /\ files = << >>
             /\ LastPrinted = "No text extracted"
    /\ (calls # << >> /\ exc = "none" /\ participants = << >>)
          => /\ pc = "Done"
             /\ Len(calls) = 1 /\ calls[1].stage = 1
             /\ files = << >>
             /\ LastPrinted = "Failed to parse any participants"

C3_Witness ==
    pc = "Done" /\ calls # << >> /\ participants = << >> /\ strip(sop_text) # << >>

\* C4: at most one stage-3 call; it is made only after every participant was
\* processed and only when some participant was retained; the message-flow
\* file exists only when the stage-3 reply parsed to at least one record.
C4_StageThreeOnceAfterLoop ==
    /\ Cardinality(Stage3Calls) <= 1
    /\ Stage3Calls # {}
          => /\ \A i \in Entries : outcome[i] \in {"written", "unparsable"}
             /\ idx = Len(participants) + 1
             /\ \E i \in Entries : IsWritten(i)
    /\ (\A i \in Entries : ~IsWritten(i)) => Stage3Calls = {}
    /\ (\E k \in 1..Len(files) : files[k].path = out_msg)
          => /\ Stage3Calls # {}
             /\ parse_markdown_table(mf) # << >>

C4_Witness ==
    /\ pc = "Done"
    /\ \E k \in 1..Len(files) : files[k].path = out_msg
    /\ \E i \in Entries : outcome[i] = "unparsable"

IsFirstWritten(i) ==
    \A k \in 1..(i - 1) : IsWritten(k) => participants[k] # participants[i]

LastWrittenLike(i) ==
    CHOOSE k \in Entries :
        /\ IsWritten(k) /\ participants[k] = participants[i]
        /\ \A l \in Entries :
              (IsWritten(l) /\ participants[l] = participants[i]) => l <= k

C10_OneFilePerEntry ==
    (pc = "Done" /\ \A i, k \in Entries : participants[i] = participants[k] => i = k)
        => /\ Cardinality(BpmnFiles) = Len(WrittenEntries)
           /\ \A i, k \in Entries :
                 (IsWritten(i) /\ IsWritten(k) /\ i # k)
                     => bpmn_path(participants[i]) # bpmn_path(participants[k])

\* C6: parsing the rendered table gives one record per row, in order, with
\* the header's names as keys and the row's cells as values.
C6_RoundTrip ==
    fpc \in {"compact", "padded"}
        => /\ Len(ret) = Len(arg.rows)
           /\ \A i \in 1..Len(ret) :
                 /\ DOMAIN ret[i] = Range(arg.header)
                 /\ \A c \in 1..Len(arg.header) :
                       ret[i][arg.header[c]] = arg.rows[i][c]

\* the qualifying lines of a text: trimmed, starting with a pipe
Qualifying(text) ==
    LET IsRow(l) == startswith(l, Pipe)
    IN  SelectSeq(strip_each(splitlines(text)), IsRow)

CellCount(row) == Len(split(strip_chars(row, Pipe), Pipe))

\* the records the text should parse to
ExpectedRecords(text) ==
    LET q == Qualifying(text)
        Fits(row) == CellCount(row) = CellCount(q[1])
        kept == SelectSeq(SubSeq(q, 3, Len(q)), Fits)
    IN  IF Len(q) < 2 THEN << >>
        ELSE [k \in 1..Len(kept) |-> dict_zip(row_cells(q[1]), row_cells(kept[k]))]

\* the positions, among the lines of the text, of the body rows whose cell
\* count (the number of pieces of row.strip("|").split("|")) is not the header's
BadBodyLines(text) ==
    LET ls == splitlines(text)
        q == Qualifying(text)
        IsQ(n) == startswith(strip(ls[n]), Pipe)
        Rank(n) == Cardinality({m \in 1..n : IsQ(m)})
    IN  {n \in 1..Len(ls) :
            IsQ(n) /\ Rank(n) > 2 /\ CellCount(strip(ls[n])) # CellCount(q[1])}

WithoutLine(text, n) ==
    LET ls == splitlines(text)
    IN  join(<< NL >>, SubSeq(ls, 1, n - 1) \o SubSeq(ls, n + 1, Len(ls)))

AfterIndex(line) ==
    LET n == Len(line)
        ends == {e \in 1..n :
                    \E b \in 1..e :
                        /\ \A p \in 1..(b - 1) : IsSpace(line[p])
                        /\ \A p \in b..e : IsDigit(line[p])
                        /\ (e < n => ~IsDigit(line[e + 1]))}
    IN  IF ends = {} THEN 0
        ELSE LET e == CHOOSE x \in ends : TRUE
                 d == IF e < n /\ line[e + 1] = "." THEN e + 1 ELSE e
             IN  IF d + 1 < n /\ IsSpace(line[d + 1]) THEN d + 1 ELSE 0

RECURSIVE ExpectedLabels(_)
ExpectedLabels(lines) ==
    IF lines = << >> THEN << >>
    ELSE (IF AfterIndex(Head(lines)) > 0
          THEN << strip(SubSeq(Head(lines), AfterIndex(Head(lines)) + 1,
                               Len(Head(lines)))) >>
          ELSE << >>) \o ExpectedLabels(Tail(lines))

\* C8: the output is, in order and with repetitions, the trimmed label of
\* each line that matches; every label is a non-empty string; the example
\* gives Alice, Bob, Carol.
C8_ListParser ==
    fpc = "out"
        => /\ ret = ExpectedLabels(splitlines(arg))
           /\ \A i \in 1..Len(ret) : ret[i] # << >>
           /\ arg = ExampleList => ret = << << "Alice" >>, << "Bob" >>, << "Carol" >> >>

IsAlnum(c) == IsWord(c) /\ c # "_"

NoDoubleUnderscore(s) == \A i \in 1..(Len(s) - 1) : ~(s[i] = "_" /\ s[i + 1] = "_")

\* label with each maximal run of characters outside Keep replaced by "_"
RunsCollapsed(label, Keep(_)) ==
    LET Shown(i) == Keep(label[i]) \/ i = 1 \/ Keep(label[i - 1])
        at == SelectSeq([i \in 1..Len(label) |-> i], Shown)
    IN  [k \in 1..Len(at) |-> IF Keep(label[at[k]]) THEN label[at[k]] ELSE "_"]

\* C9 as claimed: every maximal run of characters that are neither
\* alphanumeric nor a hyphen becomes one underscore; the result holds only
\* alphanumerics, hyphens and underscores and never two underscores in a row.
C9_RunsToOneUnderscore ==
    fpc = "out"
        => /\ LET Keep(c) == IsAlnum(c) \/ c = "-"
              IN  ret = RunsCollapsed(arg, Keep)
           /\ \A i \in 1..Len(ret) : IsAlnum(ret[i]) \/ ret[i] \in {"-", "_"}
           /\ NoDoubleUnderscore(ret)

\* C9 amended: every maximal run of characters that are neither
\* alphanumeric, nor an underscore, nor a hyphen becomes one underscore and
\* the other characters are kept; the result holds only alphanumerics,
\* hyphens and underscores, and has two underscores in a row only if the
\* label holds an underscore.
C9_NonWordRunsToOneUnderscore ==
    fpc = "out"
        => /\ LET Keep(c) == IsAlnum(c) \/ c = "_" \/ c = "-"
              IN  ret = RunsCollapsed(arg, Keep)
           /\ \A i \in 1..Len(ret) : IsAlnum(ret[i]) \/ ret[i] \in {"-", "_"}
           /\ (\A i \in 1..Len(arg) : arg[i] # "_") => NoDoubleUnderscore(ret)

C9_Witness ==
    /\ fpc = "out"
    /\ ~NoDoubleUnderscore(ret)
    /\ \E i \in 1..(Len(arg) - 1) : arg[i] = " " /\ arg[i + 1] = "/"

====
